---- MODULE Spec2Model ----
(***************************************************************************)
(* GraphWrapper (abc_shadow/graph/graph_wrapper.py): a wrapper over the    *)
(* line graph of a complete graph whose nodes (the potential edges of the  *)
(* observed graph) carry a 'type' attribute.                               *)
(*                                                                         *)
(* The networkx calls the wrapper makes (complete_graph, complement,       *)
(* line_graph, inverse_line_graph, set/get_*_attributes, Graph.nodes,      *)
(* Graph.neighbors, Graph.degree) are modelled as networkx 2.x computes    *)
(* them, the release line the wrapper was written against: line_graph      *)
(* labels a node (u, v) with u <= v, and inverse_line_graph raises on a    *)
(* graph without edges.                                                    *)
(***************************************************************************)
EXTENDS Integers, Sequences, FiniteSets, TLC

\* Largest dim tried for GraphWrapper(dim) (nodes 0..dim-1).
MaxDim == 4

\* Largest number of nodes of a source graph gr; its labels are 0..MaxNodes-1.
MaxNodes == 3

\* Largest number of values stored by set_particle / set_edge_type in one run.
MaxSets == 2

-----------------------------------------------------------------------------
(* Python values passed as new_val, and the outcome of a call.             *)

PyInt(n) == [kind |-> "int", num |-> n, text |-> <<>>]
PyStr(s) == [kind |-> "str", num |-> 0, text |-> s]
PyNone == [kind |-> "NoneType", num |-> 0, text |-> <<>>]

\* A call returns a value or raises.
Ok(v) == [err |-> "none", val |-> v]
Raise(e) == [err |-> e, val |-> 0]

Digits == <<"0", "1", "2", "3", "4", "5", "6", "7", "8", "9">>
IsDigit(c) == \E i \in 1..10 : Digits[i] = c
DigitVal(c) == (CHOOSE i \in 1..10 : Digits[i] = c) - 1

RECURSIVE ParseDigits(_, _)
ParseDigits(s, acc) ==
    IF s = <<>> THEN acc ELSE ParseDigits(Tail(s), 10 * acc + DigitVal(Head(s)))

\* int(str): an optional sign followed by at least one digit, else ValueError.
ParseInt(s) ==
    LET body == IF s # <<>> /\ Head(s) \in {"-", "+"} THEN Tail(s) ELSE s
        neg == s # <<>> /\ Head(s) = "-"
    IN  IF body = <<>> \/ \E i \in 1..Len(body) : ~IsDigit(body[i])
        THEN Raise("ValueError")
        ELSE Ok(IF neg THEN 0 - ParseDigits(body, 0) ELSE ParseDigits(body, 0))

\* int(new_val)
int(v) ==
    CASE v.kind = "int" -> Ok(v.num)
      [] v.kind = "str" -> ParseInt(v.text)
      [] OTHER -> Raise("TypeError")

-----------------------------------------------------------------------------
(* networkx graphs: nodes in insertion order, undirected edges as          *)
(* two-element sets, the 'type' attribute of the edges that have one.      *)

Range(s) == {s[i] : i \in 1..Len(s)}
Pos(s, x) == CHOOSE i \in 1..Len(s) : s[i] = x
EmptyDict == [k \in {} |-> 0]

Pairs(S) == {{u, v} : u, v \in S} \ {{u} : u \in S}

SortedPair(u, v) == IF u <= v THEN <<u, v>> ELSE <<v, u>>

\* tuple(sorted(key)) for a key (u, v)
SortedKey(key) == SortedPair(key[1], key[2])

RECURSIVE Iota(_)
Iota(n) == IF n <= 0 THEN <<>> ELSE Append(Iota(n - 1), n - 1)

\* nx.complete_graph(n): nodes range(n), every pair an edge, no attribute.
complete_graph(n) ==
    [kind |-> "Graph", nodes |-> Iota(n), edges |-> Pairs(Range(Iota(n))),
     etype |-> EmptyDict]

\* nx.complement(G): same nodes, the pairs of distinct nodes that are no edge.
complement(G) ==
    [kind |-> "Graph", nodes |-> G.nodes,
     edges |-> Pairs(Range(G.nodes)) \ G.edges, etype |-> EmptyDict]

\* nx.set_edge_attributes(G, value, 'type')
set_edge_attributes(G, value) ==
    [G EXCEPT !.etype = [e \in G.edges |-> value]]

\* G.add_edges_from(edges, type=value)
add_edges_from(G, edges, value) ==
    [G EXCEPT !.edges = G.edges \cup edges,
              !.etype = [e \in (DOMAIN G.etype) \cup edges |->
                            IF e \in edges THEN value ELSE G.etype[e]]]

\* G.edges() reports the edge {u, v} as (u, v) with u the node met first.
EdgeTuple(G, e) ==
    LET u == CHOOSE a \in e : \A b \in e : Pos(G.nodes, a) <= Pos(G.nodes, b)
        v == CHOOSE b \in e : b # u
    IN  <<u, v>>

\* nx.get_edge_attributes(G, 'type'): a dict keyed by the edge tuples.
get_edge_attributes(G) ==
    [key \in {EdgeTuple(G, e) : e \in DOMAIN G.etype} |-> G.etype[{key[1], key[2]}]]

\* Mutant of SortKeys: the keys are left as the edges were reported.
SortKeys_asis(attr) == attr

\* {tuple(sorted(key)): val for key, val in attr.items()}
SortKeys(attr) ==
    [k \in {SortedKey(key) : key \in DOMAIN attr} |->
        attr[CHOOSE key \in DOMAIN attr : SortedKey(key) = k]]

\* line.py sorted_node(u, v): (u, v) if u <= v else (v, u)
sorted_node(G, u, v) == SortedPair(u, v)

\* The line-graph nodes built at node u: [sorted_node(*x) for x in G.edges(u)]
NodesAt(G, u) == {sorted_node(G, u, CHOOSE v \in e : v # u) : e \in {f \in G.edges : u \in f}}

\* Lexicographic order on the pairs, to enumerate a set of them.
PairLess(a, b) == a[1] < b[1] \/ (a[1] = b[1] /\ a[2] < b[2])

RECURSIVE Ascending(_)
Ascending(S) ==
    IF S = {} THEN <<>>
    ELSE LET m == CHOOSE a \in S : \A b \in S \ {a} : PairLess(a, b)
         IN  <<m>> \o Ascending(S \ {m})

Reverse(s) == [i \in 1..Len(s) |-> s[Len(s) + 1 - i]]

\* The line graph's nodes are added from a Python set of edges, whose
\* iteration order is the implementation's: one of these enumerations.
Orders(S) == {Ascending(S), Reverse(Ascending(S))}

\* nx.line_graph(G) for an undirected G: the nodes met alone at a node of G
\* are added as nodes, each list NodesAt(G, u) becomes a clique.
LineEdges(G) == UNION {Pairs(NodesAt(G, u)) : u \in Range(G.nodes)}
LineNodes(G) ==
    UNION {NodesAt(G, u) : u \in {w \in Range(G.nodes) : Cardinality(NodesAt(G, w)) = 1}}
    \cup UNION LineEdges(G)

\* Mutant of line_graph: two nodes are neighbours only through their
\* smaller endpoint.
line_graph_first(G, order) ==
    LET L_nodes == LineNodes(G)
    IN  [none |-> FALSE,
         nodes |-> order,
         attr |-> [n \in L_nodes |-> EmptyDict],
         adj |-> [n \in L_nodes |-> {m \in L_nodes \ {n} : m[1] = n[1]}]]

line_graph(G, order) ==
    LET L_nodes == LineNodes(G)
        L_edges == LineEdges(G)
    IN  [none |-> FALSE,
         nodes |-> order,
         attr |-> [n \in L_nodes |-> EmptyDict],
         adj |-> [n \in L_nodes |-> {m \in L_nodes : {n, m} \in L_edges}]]

\* Mutant of set_node_attributes_all: no node gets the value.
set_node_attributes_all_keep(L, value) == L

\* nx.set_node_attributes(L, 0, 'type'): every node gets the value.
set_node_attributes_all(L, value) ==
    [L EXCEPT !.attr = [n \in DOMAIN L.attr |-> ("type" :> value)]]

\* nx.set_node_attributes(L, attr, 'type'): the keys of attr that are nodes
\* of L get their value, the other keys are skipped.
set_node_attributes(L, attr) ==
    [L EXCEPT !.attr = [n \in DOMAIN L.attr |->
                           IF n \in DOMAIN attr THEN ("type" :> attr[n]) ELSE L.attr[n]]]

\* self._graph = None
NoneGraph == [none |-> TRUE, nodes |-> <<>>, attr |-> EmptyDict, adj |-> EmptyDict]

-----------------------------------------------------------------------------
(* nx.inverse_line_graph (Roussopoulos' algorithm), on the wrapper's graph. *)
(* A list taken from a set or an adjacency is enumerated in node order.     *)

OrderSeq(g, S) == SelectSeq(g.nodes, LAMBDA n : n \in S)

\* _triangles(G, e): [(u, v, x) for x in G[u] if x in G[v]]
triangles(g, e) ==
    LET xs == OrderSeq(g, g.adj[e[1]] \cap g.adj[e[2]])
    IN  [i \in 1..Len(xs) |-> <<e[1], e[2], xs[i]>>]

\* _odd_triangle(G, T): some vertex outside T is adjacent to exactly one or
\* to all three vertices of T.
odd_triangle(g, T) ==
    \E v \in (UNION {g.adj[T[i]] : i \in 1..3}) \ Range(T) :
        Cardinality({i \in 1..3 : v \in g.adj[T[i]]}) \in {1, 3}

IsClique(adj, S) == \A u \in S : \A v \in S : u # v => v \in adj[u]

RECURSIVE select_starting_cell(_, _)
select_starting_cell(g, e) ==
    LET e_triangles == triangles(g, e)
        r == Len(e_triangles)
    IN  IF r = 0 THEN Ok(e)
        ELSE IF r = 1 THEN
            LET T == e_triangles[1]
                ac_edges == triangles(g, <<T[1], T[3]>>)
                bc_edges == triangles(g, <<T[2], T[3]>>)
            IN  IF Len(ac_edges) = 1
                THEN IF Len(bc_edges) = 1 THEN Ok(T)
                     ELSE select_starting_cell(g, <<T[2], T[3]>>)
                ELSE select_starting_cell(g, <<T[1], T[3]>>)
        ELSE
            LET odd_triangles == SelectSeq(e_triangles, LAMBDA T : odd_triangle(g, T))
                s == Len(odd_triangles)
                triangle_nodes == UNION {Range(odd_triangles[i]) : i \in 1..s}
            IN  IF r = 2 /\ s = 0 THEN Ok(e_triangles[r])
                ELSE IF r - 1 <= s /\ s <= r THEN
                    IF Cardinality(triangle_nodes) = s + 2 /\ IsClique(g.adj, triangle_nodes)
                    THEN Ok(OrderSeq(g, triangle_nodes))
                    ELSE Raise("NetworkXError")
                ELSE Raise("NetworkXError")

\* G_partition.remove_edges_from(combinations(cell, 2))
RemoveCell(adj, cell) ==
    [n \in DOMAIN adj |-> IF n \in Range(cell) THEN adj[n] \ Range(cell) ELSE adj[n]]

\* _find_partition(G, starting_cell): the loop, on the edges not yet in a cell
\* (adj), the cells found (P) and the partitioned vertices (pv).
RECURSIVE find_partition_loop(_, _, _, _)
find_partition_loop(g, adj, P, pv) ==
    IF \A n \in DOMAIN adj : adj[n] = {} THEN Ok(P)
    ELSE IF pv = <<>> THEN Raise("IndexError")
    ELSE LET u == pv[Len(pv)]
         IN  IF adj[u] = {}
             THEN find_partition_loop(g, adj, P, SubSeq(pv, 1, Len(pv) - 1))
             ELSE LET new_cell == <<u>> \o OrderSeq(g, adj[u])
                  IN  IF ~IsClique(adj, Range(new_cell)) THEN Raise("NetworkXError")
                      ELSE find_partition_loop(g, RemoveCell(adj, new_cell),
                                               Append(P, new_cell), pv \o new_cell)

find_partition(g, starting_cell) ==
    find_partition_loop(g, RemoveCell(g.adj, starting_cell), <<starting_cell>>, starting_cell)

\* arbitrary_element(list(G.edges())): the first edge reported.
FirstEdge(g) ==
    LET us == SelectSeq(g.nodes, LAMBDA n : g.adj[n] # {})
    IN  <<us[1], OrderSeq(g, g.adj[us[1]])[1]>>

\* len(nx.inverse_line_graph(G)): the cells of the partition and one more
\* node per vertex found in a single cell.
inverse_line_graph_len(g) ==
    IF g.none THEN Raise("AttributeError")
    ELSE IF Len(g.nodes) = 0 \/ (\A n \in DOMAIN g.adj : g.adj[n] = {})
    THEN Raise("NetworkXError")
    ELSE LET cell == select_starting_cell(g, FirstEdge(g))
         IN  IF cell.err # "none" THEN cell
             ELSE LET P == find_partition(g, cell.val)
                  IN  IF P.err # "none" THEN P
                      ELSE LET P_count == [u \in Range(g.nodes) |->
                                              Cardinality({i \in 1..Len(P.val) : u \in Range(P.val[i])})]
                               W == {<<u>> : u \in {w \in Range(g.nodes) : P_count[w] = 1}}
                           IN  IF \E u \in Range(g.nodes) : P_count[u] > 2
                               THEN Raise("NetworkXError")
                               ELSE Ok(Cardinality(Range(P.val) \cup W))

-----------------------------------------------------------------------------
(* GraphWrapper: the constructor and the methods, on the value g of        *)
(* self._graph.                                                            *)

\* Mutant of IsInstance: the exact class, subclasses not counted.
IsInstance_exact(gr, cls) == gr.kind = cls

\* The classes a graph of each kind is an instance of.
IsInstance(gr, cls) ==
    CASE cls = "DiGraph" -> gr.kind \in {"DiGraph", "MultiDiGraph"}
      [] cls = "MultiGraph" -> gr.kind \in {"MultiGraph", "MultiDiGraph"}
      [] OTHER -> gr.kind = cls

\* gr=None
NoGr == [kind |-> "NoneType", nodes |-> <<>>, edges |-> {}, etype |-> EmptyDict]

\* Mutant of copy: the graph itself, no new object.
copy_same(gr) == [obj |-> "gr", val |-> gr]

\* gr.copy(): a new Graph object with gr's nodes, edges and attributes.
copy(gr) == [obj |-> "copy", val |-> gr]

\* Mutant of TypedUnion: the two types exchanged.
TypedUnion_swapped(gr) ==
    add_edges_from(set_edge_attributes(gr, 0), complement(gr).edges, 1)

\* The graph whose line graph __init__ builds from gr: gr's edges typed 1
\* and the edges of its complement typed 0.
TypedUnion(gr) ==
    add_edges_from(set_edge_attributes(gr, 1), complement(gr).edges, 0)

\* The line-graph node set __init__ builds for (dim, gr), empty when it
\* builds no line graph.
InitNodes(dim, gr) ==
    IF dim.kind = "NoneType" THEN {}
    ELSE IF gr.kind = "NoneType" THEN LineNodes(complete_graph(dim.num))
    ELSE IF IsInstance(gr, "DiGraph") \/ IsInstance(gr, "MultiGraph") THEN {}
    ELSE LineNodes(TypedUnion(gr))

\* Mutant of init: gr is taken only when it has dim nodes.
init_matching(dim, gr, order) ==
    IF dim.kind = "NoneType" THEN Ok(NoneGraph)
    ELSE IF gr.kind = "NoneType"
    THEN Ok(set_node_attributes_all(line_graph(complete_graph(dim.num), order), 0))
    ELSE IF IsInstance(gr, "DiGraph") \/ IsInstance(gr, "MultiGraph")
    THEN Raise("TypeError")
    ELSE IF Len(gr.nodes) # dim.num THEN Raise("ValueError")
    ELSE LET graph == TypedUnion(copy(gr).val)
             attr == SortKeys(get_edge_attributes(graph))
         IN  Ok(set_node_attributes(line_graph(graph, order), attr))

\* GraphWrapper.__init__(dim, gr); order is the enumeration the line graph
\* gives its nodes.
init(dim, gr, order) ==
    IF dim.kind = "NoneType" THEN Ok(NoneGraph)
    ELSE IF gr.kind = "NoneType"
    THEN Ok(set_node_attributes_all(line_graph(complete_graph(dim.num), order), 0))
    ELSE IF IsInstance(gr, "DiGraph") \/ IsInstance(gr, "MultiGraph")
    THEN Raise("TypeError")
    ELSE LET graph == TypedUnion(copy(gr).val)
             attr == SortKeys(get_edge_attributes(graph))
         IN  Ok(set_node_attributes(line_graph(graph, order), attr))

\* The graph gr as __init__(dim, gr) leaves it: set_edge_attributes and
\* add_edges_from act on the object graph = gr.copy() names.
gr_after_init(dim, gr) ==
    IF dim.kind = "NoneType" \/ gr.kind = "NoneType" THEN gr
    ELSE IF IsInstance(gr, "DiGraph") \/ IsInstance(gr, "MultiGraph") THEN gr
    ELSE IF copy(gr).obj = "gr" THEN TypedUnion(gr) ELSE gr

get_graph(g) == Ok(g)

get_elements(g) ==
    IF g.none THEN Raise("AttributeError") ELSE Ok(g.nodes)

\* self._graph.nodes[edge_id]['type']
get_edge_type(g, edge_id) ==
    IF g.none THEN Raise("AttributeError")
    ELSE IF edge_id \notin DOMAIN g.attr THEN Raise("KeyError")
    ELSE IF "type" \notin DOMAIN g.attr[edge_id] THEN Raise("KeyError")
    ELSE Ok(g.attr[edge_id]["type"])

get_particle(g, id) == get_edge_type(g, id)

is_active_edge(g, edge_id) ==
    LET t == get_edge_type(g, edge_id)
    IN  IF t.err # "none" THEN t ELSE Ok(t.val = 1)

\* [t for t in ts if self.is_active_edge(t)], raising what the first failing
\* is_active_edge raises.
ActiveOf(g, ts) ==
    IF \E i \in 1..Len(ts) : is_active_edge(g, ts[i]).err # "none"
    THEN is_active_edge(g, ts[CHOOSE i \in 1..Len(ts) :
                                 /\ is_active_edge(g, ts[i]).err # "none"
                                 /\ \A j \in 1..(i - 1) : is_active_edge(g, ts[j]).err = "none"])
    ELSE Ok(SelectSeq(ts, LAMBDA t : is_active_edge(g, t).val))

get_active_edges(g) ==
    LET els == get_elements(g)
    IN  IF els.err # "none" THEN els ELSE ActiveOf(g, els.val)

\* len([e for e in nx.get_node_attributes(g, 'type').values() if e == value])
CountType(g, value) ==
    IF g.none THEN Raise("AttributeError")
    ELSE Ok(Cardinality({n \in DOMAIN g.attr :
                            "type" \in DOMAIN g.attr[n] /\ g.attr[n]["type"] = value}))

get_none_edge_count(g) == CountType(g, 0)

get_edge_count(g) == CountType(g, 1)

\* d['type'] = val
DictSet(d, val) == [k \in (DOMAIN d) \cup {"type"} |-> IF k = "type" THEN val ELSE d[k]]

\* Mutant of set_edge_type: the value is stored in every node.
set_edge_type_clobber(g, edge_id, new_val) ==
    LET val == int(new_val)
    IN  IF val.err = "ValueError" THEN [out |-> Raise("TypeError"), graph |-> g]
        ELSE IF val.err # "none" THEN [out |-> val, graph |-> g]
        ELSE IF g.none THEN [out |-> Raise("AttributeError"), graph |-> g]
        ELSE IF edge_id \notin DOMAIN g.attr THEN [out |-> Raise("KeyError"), graph |-> g]
        ELSE [out |-> Ok(0),
              graph |-> [g EXCEPT !.attr = [n \in DOMAIN g.attr |-> DictSet(g.attr[n], val.val)]]]

\* Mutant of set_edge_type: an identifier that is no node is added as one.
set_edge_type_adding(g, edge_id, new_val) ==
    LET val == int(new_val)
    IN  IF val.err = "ValueError" THEN [out |-> Raise("TypeError"), graph |-> g]
        ELSE IF val.err # "none" THEN [out |-> val, graph |-> g]
        ELSE IF g.none THEN [out |-> Raise("AttributeError"), graph |-> g]
        ELSE IF edge_id \notin DOMAIN g.attr
        THEN [out |-> Ok(0),
              graph |-> [g EXCEPT !.nodes = Append(g.nodes, edge_id),
                                  !.attr = [n \in (DOMAIN g.attr) \cup {edge_id} |->
                                               IF n = edge_id THEN ("type" :> val.val) ELSE g.attr[n]],
                                  !.adj = [n \in (DOMAIN g.adj) \cup {edge_id} |->
                                              IF n = edge_id THEN {} ELSE g.adj[n]]]]
        ELSE [out |-> Ok(0),
              graph |-> [g EXCEPT !.attr[edge_id] = DictSet(g.attr[edge_id], val.val)]]

\* Mutant of set_edge_type: a node of type 1 keeps it for good.
set_edge_type_final(g, edge_id, new_val) ==
    LET val == int(new_val)
    IN  IF val.err = "ValueError" THEN [out |-> Raise("TypeError"), graph |-> g]
        ELSE IF val.err # "none" THEN [out |-> val, graph |-> g]
        ELSE IF g.none THEN [out |-> Raise("AttributeError"), graph |-> g]
        ELSE IF edge_id \notin DOMAIN g.attr THEN [out |-> Raise("KeyError"), graph |-> g]
        ELSE IF get_edge_type(g, edge_id) = Ok(1) THEN [out |-> Raise("ValueError"), graph |-> g]
        ELSE [out |-> Ok(0),
              graph |-> [g EXCEPT !.attr[edge_id] = DictSet(g.attr[edge_id], val.val)]]

\* set_edge_type(edge_id, new_val): the outcome and the graph it leaves.
set_edge_type(g, edge_id, new_val) ==
    LET val == int(new_val)
    IN  IF val.err = "ValueError" THEN [out |-> Raise("TypeError"), graph |-> g]
        ELSE IF val.err # "none" THEN [out |-> val, graph |-> g]
        ELSE IF g.none THEN [out |-> Raise("AttributeError"), graph |-> g]
        ELSE IF edge_id \notin DOMAIN g.attr THEN [out |-> Raise("KeyError"), graph |-> g]
        ELSE [out |-> Ok(0),
              graph |-> [g EXCEPT !.attr[edge_id] = DictSet(g.attr[edge_id], val.val)]]

set_particle(g, id, new_val) == set_edge_type(g, id, new_val)

\* Mutant of get_edge_neighbourhood: the active nodes other than edge,
\* neighbours or not.
get_edge_neighbourhood_any(g, edge) ==
    IF g.none THEN Raise("AttributeError")
    ELSE IF edge \notin DOMAIN g.adj THEN Raise("NetworkXError")
    ELSE ActiveOf(g, OrderSeq(g, (DOMAIN g.adj) \ {edge}))

\* [t for t in self._graph.neighbors(edge) if self.is_active_edge(t)]
get_edge_neighbourhood(g, edge) ==
    IF g.none THEN Raise("AttributeError")
    ELSE IF edge \notin DOMAIN g.adj THEN Raise("NetworkXError")
    ELSE ActiveOf(g, OrderSeq(g, g.adj[edge]))

\* x / y: defined between numbers only.
TrueDiv(x, y) ==
    IF x.kind \in {"int", "float"} /\ y.kind \in {"int", "float"}
    THEN IF y.num = 0 THEN Raise("ZeroDivisionError")
         ELSE Ok([kind |-> "float", num |-> x.num, den |-> y.num])
    ELSE Raise("TypeError")

\* sum(x): defined on an iterable only.
PySum(x) == IF x.kind \in {"int", "float"} THEN Raise("TypeError") ELSE Ok(x)

\* get_bridge_count: sum(degrees / 2), degrees the dict_values of the
\* line-graph degrees of the active edges.
get_bridge_count(g) ==
    LET active_edges == get_active_edges(g)
    IN  IF active_edges.err # "none" THEN active_edges
        ELSE LET degrees == [kind |-> "dict_values",
                             items |-> [e \in Range(active_edges.val) |-> Cardinality(g.adj[e])]]
                 halved == TrueDiv(degrees, PyInt(2))
             IN  IF halved.err # "none" THEN halved ELSE PySum(halved.val)

get_initial_dim(g) == inverse_line_graph_len(g)

-----------------------------------------------------------------------------
(* The state machine: one wrapper, constructed once and then used.         *)

VARIABLES
    pc,      \* "new" before __init__, "raised" if it raised, "returned" when a
             \* call has handed its outcome to the caller, "ready" between calls
    graph,   \* self._graph
    last,    \* the last call: its name, its arguments and its outcome
    nsets,   \* the number of values stored so far
    origin,  \* what __init__ built the index from: "dim" or "gr", and the
             \* number of nodes of that graph ("none": no index was built)
    source,  \* the graph G the caller passed as gr and still holds (NoGr: the
             \* caller keeps none, as get_flomarriage_graph does)
    twin     \* a second wrapper the caller built from the same arguments:
             \* whether it was built, and its self._graph

vars == <<pc, graph, last, nsets, origin, source, twin>>

\* No second wrapper.
NoTwin == [built |-> FALSE, graph |-> NoneGraph]

\* A label no constructed graph has as a node.
Outsider == MaxDim + MaxNodes

Dims == {PyNone} \cup {PyInt(n) : n \in 0..MaxDim}

Labels == 0..(MaxNodes - 1)

\* The insertion orders of the nodes of a source graph.
NodeSeqs ==
    UNION {{ns \in [1..k -> Labels] : \A i, j \in 1..k : i # j => ns[i] # ns[j]} : k \in 0..MaxNodes}

Kinds == {"Graph", "DiGraph", "MultiGraph", "MultiDiGraph"}

SourceGraphs ==
    UNION {{[kind |-> k, nodes |-> ns, edges |-> es, etype |-> EmptyDict] :
                k \in Kinds, es \in SUBSET Pairs(Range(ns))} : ns \in NodeSeqs}

\* The values tried as new_val.
Values == {PyInt(0), PyInt(1), PyInt(2), PyStr(<<"1">>), PyStr(<<"x">>), PyNone}

\* Identifiers that are no element: a reversed pair, a pair with a node the
\* graph does not have, a pair of equal nodes.
UnknownIds == {<<1, 0>>, <<0, Outsider>>, <<0, 0>>}

Ids == Range(graph.nodes) \cup UnknownIds

NoId == <<>>

Call(op, id, val, out) ==
    [op |-> op, dim |-> PyNone, gr |-> NoGr, id |-> id, val |-> val, out |-> out]

Init ==
    /\ pc = "new"
    /\ graph = NoneGraph
    /\ last = Call("none", NoId, PyNone, Ok(0))
    /\ nsets = 0
    /\ origin = [from |-> "none", n |-> 0]
    /\ source = NoGr
    /\ twin = NoTwin

Construct ==
    /\ pc = "new"
    /\ \E dim \in Dims, gr \in SourceGraphs \cup {NoGr} :
         \E order \in Orders(InitNodes(dim, gr)) :
            LET r == init(dim, gr, order)
            IN  /\ pc' = IF r.err = "none" THEN "returned" ELSE "raised"
                /\ graph' = IF r.err = "none" THEN r.val ELSE NoneGraph
                /\ last' = [op |-> "__init__", dim |-> dim, gr |-> gr, id |-> NoId,
                            val |-> PyNone,
                            out |-> IF r.err = "none" THEN Ok(0) ELSE r]
                /\ origin' = IF r.err # "none" \/ r.val.none THEN [from |-> "none", n |-> 0]
                              ELSE IF gr.kind = "NoneType" THEN [from |-> "dim", n |-> dim.num]
                              ELSE [from |-> "gr", n |-> Len(gr.nodes)]
    /\ UNCHANGED <<nsets, source, twin>>

\* Mutant of Query: a method that reads puts every type back to 0.
Query_clearing(op, id, out) ==
    /\ pc = "ready"
    /\ pc' = "returned"
    /\ last' = Call(op, id, PyNone, out)
    /\ graph' = IF graph.none THEN graph ELSE set_node_attributes_all(graph, 0)
    /\ UNCHANGED <<nsets, origin, source, twin>>

\* A method that reads: graph is left as it is.
Query(op, id, out) ==
    /\ pc = "ready"
    /\ pc' = "returned"
    /\ last' = Call(op, id, PyNone, out)
    /\ UNCHANGED <<graph, nsets, origin, source, twin>>

GetGraph == Query("get_graph", NoId, get_graph(graph))

GetInitialDim == Query("get_initial_dim", NoId, get_initial_dim(graph))

GetNoneEdgeCount == Query("get_none_edge_count", NoId, get_none_edge_count(graph))

GetEdgeCount == Query("get_edge_count", NoId, get_edge_count(graph))

GetElements == Query("get_elements", NoId, get_elements(graph))

GetParticle == \E id \in Ids : Query("get_particle", id, get_particle(graph, id))

GetEdgeType == \E id \in Ids : Query("get_edge_type", id, get_edge_type(graph, id))

IsActiveEdge == \E id \in Ids : Query("is_active_edge", id, is_active_edge(graph, id))

GetActiveEdges == Query("get_active_edges", NoId, get_active_edges(graph))

GetEdgeNeighbourhood ==
    \E id \in Ids : Query("get_edge_neighbourhood", id, get_edge_neighbourhood(graph, id))

GetBridgeCount == Query("get_bridge_count", NoId, get_bridge_count(graph))

SetParticle ==
    /\ pc = "ready"
    /\ nsets < MaxSets
    /\ \E id \in Ids, new_val \in Values :
         LET r == set_particle(graph, id, new_val)
         IN  /\ graph' = r.graph
             /\ last' = Call("set_particle", id, new_val, r.out)
             /\ nsets' = IF r.out.err = "none" THEN nsets + 1 ELSE nsets
    /\ pc' = "returned"
    /\ UNCHANGED <<origin, source, twin>>

SetEdgeType ==
    /\ pc = "ready"
    /\ nsets < MaxSets
    /\ \E edge_id \in Ids, new_val \in Values :
         LET r == set_edge_type(graph, edge_id, new_val)
         IN  /\ graph' = r.graph
             /\ last' = Call("set_edge_type", edge_id, new_val, r.out)
             /\ nsets' = IF r.out.err = "none" THEN nsets + 1 ELSE nsets
    /\ pc' = "returned"
    /\ UNCHANGED <<origin, source, twin>>

\* The caller takes the outcome and goes on to its next call: the calls of a
\* run are made one after the other.
Resume ==
    /\ pc = "returned"
    /\ pc' = "ready"
    /\ last' = Call("none", NoId, PyNone, Ok(0))
    /\ UNCHANGED <<graph, nsets, origin, source, twin>>

Next ==
    \/ Construct
    \/ Resume
    \/ GetGraph
    \/ GetInitialDim
    \/ GetNoneEdgeCount
    \/ GetEdgeCount
    \/ GetElements
    \/ GetParticle
    \/ GetEdgeType
    \/ IsActiveEdge
    \/ GetActiveEdges
    \/ SetParticle
    \/ SetEdgeType
    \/ GetEdgeNeighbourhood
    \/ GetBridgeCount

Spec == Init /\ [][Next]_vars

-----------------------------------------------------------------------------
(* A caller that keeps its graph G and builds two wrappers from the same   *)
(* arguments, then sets types in either.                                   *)

\* The graphs the caller builds, nodes added in ascending order.
PairGraphs == {g \in SourceGraphs : g.nodes = Iota(Len(g.nodes))}

\* The two types.
Types == {PyInt(0), PyInt(1)}

\* w1 = GraphWrapper(dim, gr)
BuildFirst ==
    /\ pc = "new"
    /\ \E dim \in Dims, gr \in PairGraphs \cup {NoGr} :
         \E order \in Orders(InitNodes(dim, gr)) :
            LET r == init(dim, gr, order)
            IN  /\ pc' = IF r.err = "none" THEN "ready" ELSE "raised"
                /\ graph' = IF r.err = "none" THEN r.val ELSE NoneGraph
                /\ last' = [op |-> "__init__", dim |-> dim, gr |-> gr, id |-> NoId,
                            val |-> PyNone,
                            out |-> IF r.err = "none" THEN Ok(0) ELSE r]
                /\ origin' = IF r.err # "none" \/ r.val.none THEN [from |-> "none", n |-> 0]
                              ELSE IF gr.kind = "NoneType" THEN [from |-> "dim", n |-> dim.num]
                              ELSE [from |-> "gr", n |-> Len(gr.nodes)]
                /\ source' = gr_after_init(dim, gr)
    /\ UNCHANGED <<nsets, twin>>

\* w2 = GraphWrapper(dim, gr), with the same dim and the graph the caller
\* holds, at any time after the first.
BuildSecond ==
    /\ pc = "ready"
    /\ ~twin.built
    /\ \E order \in Orders(InitNodes(last.dim, source)) :
         LET r == init(last.dim, source, order)
         IN  twin' = [built |-> TRUE, graph |-> IF r.err = "none" THEN r.val ELSE NoneGraph]
    /\ source' = gr_after_init(last.dim, source)
    /\ UNCHANGED <<pc, graph, last, nsets, origin>>

\* w1.set_particle(id, new_val)
SetFirst ==
    /\ pc = "ready"
    /\ nsets < MaxSets
    /\ \E id \in Range(graph.nodes), new_val \in Types :
         LET r == set_particle(graph, id, new_val)
         IN  /\ graph' = r.graph
             /\ nsets' = IF r.out.err = "none" THEN nsets + 1 ELSE nsets
    /\ UNCHANGED <<pc, last, origin, source, twin>>

\* w2.set_particle(id, new_val)
SetSecond ==
    /\ pc = "ready"
    /\ twin.built
    /\ nsets < MaxSets
    /\ \E id \in Range(twin.graph.nodes), new_val \in Types :
         LET r == set_particle(twin.graph, id, new_val)
         IN  /\ twin' = [twin EXCEPT !.graph = r.graph]
             /\ nsets' = IF r.out.err = "none" THEN nsets + 1 ELSE nsets
    /\ UNCHANGED <<pc, graph, last, origin, source>>

NextIsolation ==
    \/ BuildFirst
    \/ BuildSecond
    \/ SetFirst
    \/ SetSecond

SpecIsolation == Init /\ [][NextIsolation]_vars

-----------------------------------------------------------------------------
(* Properties.                                                             *)

Elements == Range(graph.nodes)

SetOps == {"set_particle", "set_edge_type"}

IdOps == {"get_particle", "get_edge_type", "is_active_edge", "get_edge_neighbourhood"} \cup SetOps

\* Python's == between the argument of a call and a stored int.
PyEq(v, n) == v.kind = "int" /\ v.num = n

\* A set call on the wrapper that returned without raising.
SetReturned == pc = "ready" /\ last'.op \in SetOps /\ last'.out.err = "none"

\* C1: in every state every element returned by get_elements has a type, and
\* the type get_edge_type returns for it is 0 or 1.
C1_TotalTyping ==
    \A e \in Elements :
        /\ get_edge_type(graph, e).err = "none"
        /\ get_edge_type(graph, e).val \in {0, 1}

\* What a set call on id leaves alone: the type of every other element, the
\* enumeration of get_elements and every adjacency set.
SetFrame ==
    /\ \A n \in Elements \ {last'.id} : get_edge_type(graph', n) = get_edge_type(graph, n)
    /\ get_elements(graph') = get_elements(graph)
    /\ graph'.adj = graph.adj

\* C2 as stated: a set call (e, v) that returns makes get_particle(e) equal
\* to the argument v itself, and leaves everything else as it was.
C2_SetStoresArgument ==
    [][SetReturned =>
          /\ get_particle(graph', last'.id).err = "none"
          /\ PyEq(last'.val, get_particle(graph', last'.id).val)
          /\ SetFrame]_vars

\* C2: a set call (e, v) that returns makes get_particle(e) equal to int(v),
\* and leaves unchanged the type of every other element, the enumeration of
\* get_elements and every adjacency set; no call after construction changes
\* an adjacency set or the enumeration.
C2_MutationIsolation ==
    [][/\ SetReturned =>
             /\ get_particle(graph', last'.id) = Ok(int(last'.val).val)
             /\ SetFrame
       /\ pc # "new" => (graph'.adj = graph.adj /\ graph'.nodes = graph.nodes)]_vars

\* A set call with a string has stored its integer value in a wrapper that
\* has other elements, some of them neighbours.
C2_Witness ==
    /\ pc = "returned"
    /\ last.op \in SetOps
    /\ last.out.err = "none"
    /\ last.val.kind = "str"
    /\ last.id \in Elements
    /\ graph.adj[last.id] # {}
    /\ nsets = 2

\* C3: get_edge_neighbourhood(e) on an element e returns exactly the
\* neighbours of e whose type is 1, each once, and never e.
C3_ActiveFilter ==
    (pc = "returned" /\ last.op = "get_edge_neighbourhood" /\ last.id \in Elements) =>
        /\ last.out.err = "none"
        /\ Range(last.out.val) = {n \in graph.adj[last.id] : get_edge_type(graph, n) = Ok(1)}
        /\ Len(last.out.val) = Cardinality(Range(last.out.val))
        /\ last.id \notin Range(last.out.val)

\* get_edge_neighbourhood has answered for an element that has an active
\* neighbour, an inactive neighbour and an active element that is no neighbour.
C3_Witness ==
    /\ pc = "returned"
    /\ last.op = "get_edge_neighbourhood"
    /\ last.id \in Elements
    /\ last.out.err = "none"
    /\ last.out.val # <<>>
    /\ \E n \in graph.adj[last.id] : get_edge_type(graph, n) = Ok(0)
    /\ \E n \in Elements \ (graph.adj[last.id] \cup {last.id}) : get_edge_type(graph, n) = Ok(1)

\* __init__ has just built an index from a Graph gr (dim an integer, as in
\* every construction that reads gr).
BuiltFromGraph ==
    /\ pc = "returned"
    /\ last.op = "__init__"
    /\ last.gr.kind = "Graph"
    /\ last.dim.kind = "int"

\* C4: right after construction from a simple undirected graph G on V, every
\* element is a pair of distinct nodes of V, every such pair is exactly one
\* element, an element has type 1 exactly when it is an edge of G and type 0
\* exactly when it is not, and the active and the inactive elements together
\* are all the pairs.
C4_ComplementCompleteness ==
    BuiltFromGraph =>
        LET V == Range(last.gr.nodes)
            active == get_active_edges(graph)
            inactive == {e \in Elements : get_edge_type(graph, e) = Ok(0)}
        IN  /\ get_elements(graph).err = "none"
            /\ \A e \in Elements : {e[1], e[2]} \in Pairs(V)
            /\ \A p \in Pairs(V) :
                  Cardinality({i \in 1..Len(graph.nodes) :
                                  {graph.nodes[i][1], graph.nodes[i][2]} = p}) = 1
            /\ \A e \in Elements :
                  get_edge_type(graph, e) = Ok(IF {e[1], e[2]} \in last.gr.edges THEN 1 ELSE 0)
            /\ active.err = "none"
            /\ {{e[1], e[2]} : e \in Range(active.val) \cup inactive} = Pairs(V)
            /\ Range(active.val) \cap inactive = {}

\* An index has been built from a graph on three nodes, inserted out of
\* order, with an edge and a pair that is no edge.
C4_Witness ==
    /\ BuiltFromGraph
    /\ last.gr.nodes = <<2, 0, 1>>
    /\ last.gr.edges = {{0, 2}}
    /\ Len(graph.nodes) = 3

\* The ordered pairs (e, n) of active elements that are neighbours.
ActiveAdjacent ==
    {p \in Elements \X Elements :
        /\ get_edge_type(graph, p[1]) = Ok(1)
        /\ get_edge_type(graph, p[2]) = Ok(1)
        /\ p[2] \in graph.adj[p[1]]}

\* C5: get_bridge_count returns half of the sum, over the active elements, of
\* the number of their active neighbours.
C5_BridgeCount ==
    (pc = "returned" /\ last.op = "get_bridge_count" /\ ~graph.none) =>
        last.out = Ok(Cardinality(ActiveAdjacent) \div 2)

\* A value that is neither of the two types, nor coerced to one of them.
Invalid(v) == int(v).err # "none" \/ int(v).val \notin {0, 1}

\* C6: a set call on an element with a value outside the two types raises and
\* leaves every type as it was.
C6_InvalidStateRejection ==
    [][(pc = "ready" /\ last'.op \in SetOps /\ last'.id \in Elements /\ Invalid(last'.val)) =>
          (last'.out.err # "none" /\ graph' = graph)]_vars

\* C7: a query or a set call with an identifier that is no element raises and
\* leaves the index as it was.
C7_UnknownEdgeRejection ==
    [][(pc = "ready" /\ last'.op \in IdOps /\ last'.id \notin Elements) =>
          (last'.out.err # "none" /\ graph' = graph)]_vars

\* set_edge_type was called with a valid value and the reverse of an element:
\* it raised KeyError.
C7_Witness ==
    /\ pc = "returned"
    /\ last.op = "set_edge_type"
    /\ last.id = <<1, 0>>
    /\ <<0, 1>> \in Elements
    /\ last.val = PyInt(1)
    /\ last.out.err = "KeyError"

Unsupported(gr) == gr.kind \in {"DiGraph", "MultiGraph", "MultiDiGraph"}

C9_ConfigurationRejection ==
    /\ (last.op = "__init__" /\ last.gr.kind = "NoneType"
           /\ last.dim.kind = "int" /\ last.dim.num < 2) => pc = "raised"
    /\ (pc \in {"ready", "returned"} /\ ~graph.none) => Len(graph.nodes) > 0

\* C10: on a wrapper built without gr on dim = k nodes, k >= 2,
\* get_initial_dim returns k, whatever set calls came before.
C10_RoundTripDimension ==
    (pc = "returned" /\ last.op = "get_initial_dim" /\ origin.from = "dim" /\ origin.n >= 2) =>
        last.out = Ok(origin.n)

\* __init__ has just built an index without gr, on dim nodes.
BuiltFromDim ==
    /\ pc = "returned"
    /\ last.op = "__init__"
    /\ last.gr.kind = "NoneType"
    /\ last.dim.kind = "int"

\* C11: right after construction without gr on dim = N nodes there are
\* N(N-1)/2 elements, one per pair of distinct nodes of 0..N-1, each of type
\* 0; get_active_edges is empty, get_edge_count is 0 and get_none_edge_count
\* is the number of elements.
C11_DefaultConstruction ==
    BuiltFromDim =>
        LET N == last.dim.num
        IN  /\ get_elements(graph).err = "none"
            /\ Len(graph.nodes) = (N * (N - 1)) \div 2
            /\ \A p \in Pairs(0..(N - 1)) :
                  Cardinality({i \in 1..Len(graph.nodes) :
                                  {graph.nodes[i][1], graph.nodes[i][2]} = p}) = 1
            /\ \A e \in Elements : get_edge_type(graph, e) = Ok(0)
            /\ get_active_edges(graph) = Ok(<<>>)
            /\ get_edge_count(graph) = Ok(0)
            /\ get_none_edge_count(graph) = Ok(Len(graph.nodes))

\* An index has been built without gr on four nodes: six elements.
C11_Witness ==
    /\ BuiltFromDim
    /\ last.dim.num = 4
    /\ Len(graph.nodes) = 6

\* C12: in every state of an index get_edge_count is the number of elements
\* of type 1 and the length of get_active_edges, get_none_edge_count is the
\* number of elements of type 0, and the two counts add up to the number of
\* elements.
C12_CountConsistency ==
    (pc # "new" /\ ~graph.none) =>
        /\ get_edge_count(graph) =
              Ok(Cardinality({e \in Elements : get_edge_type(graph, e) = Ok(1)}))
        /\ get_active_edges(graph).err = "none"
        /\ get_edge_count(graph) = Ok(Len(get_active_edges(graph).val))
        /\ get_none_edge_count(graph) =
              Ok(Cardinality({e \in Elements : get_edge_type(graph, e) = Ok(0)}))
        /\ get_edge_count(graph).val + get_none_edge_count(graph).val = Len(graph.nodes)

\* C13: in every state of an index and for every element e, the flip
\* set_particle(e, 1 - get_particle(e)) returns and stores the other type,
\* and the flip back returns and restores the state: no earlier call makes
\* an element impossible to flip.
C13_NoTerminalState ==
    (pc # "new" /\ ~graph.none) =>
        \A e \in Elements :
            LET t == get_particle(graph, e)
                flip == set_particle(graph, e, PyInt(1 - t.val))
                back == set_particle(flip.graph, e, PyInt(t.val))
            IN  /\ t.err = "none"
                /\ flip.out.err = "none"
                /\ get_particle(flip.graph, e) = Ok(1 - t.val)
                /\ back.out.err = "none"
                /\ back.graph = graph

\* After an earlier stored value, set_particle has put an element back to 0
\* while another element is of type 1.
C13_Witness ==
    /\ pc = "returned"
    /\ last.op = "set_particle"
    /\ last.out.err = "none"
    /\ last.val = PyInt(0)
    /\ last.id \in Elements
    /\ nsets = 2
    /\ \E n \in Elements \ {last.id} : get_edge_type(graph, n) = Ok(1)

\* C14: the type of an element changes only in a set_particle or
\* set_edge_type step naming that element; every other call, whether it
\* returns or raises, leaves the types, the elements and the adjacency sets
\* as they were.
C14_SingleMutationPath ==
    [][pc # "new" =>
          /\ \A e \in Elements :
                get_edge_type(graph', e) # get_edge_type(graph, e) =>
                    (last'.op \in SetOps /\ last'.id = e)
          /\ last'.op \notin SetOps => graph' = graph]_vars

\* get_bridge_count has raised on an index with an element of type 1 and an
\* element of type 0.
C14_Witness ==
    /\ pc = "returned"
    /\ last.op = "get_bridge_count"
    /\ last.out.err = "TypeError"
    /\ \E n \in Elements : get_edge_type(graph, n) = Ok(1)
    /\ \E n \in Elements : get_edge_type(graph, n) = Ok(0)

\* C15: in an index built from a graph G, whatever the insertion order of
\* G's nodes, every element is the sorted pair of its two endpoints, no
\* element is the reverse of another, and the type computed for a sorted key
\* (1 for an edge of G, 0 for an edge of its complement) is the type of the
\* element with that key: no element is without a type.
C15_CanonicalKeys ==
    BuiltFromGraph =>
        LET attr == SortKeys(get_edge_attributes(TypedUnion(last.gr)))
        IN  /\ \A e \in Elements : e = SortedKey(e) /\ e[1] # e[2]
            /\ \A e \in Elements : <<e[2], e[1]>> \notin Elements
            /\ DOMAIN attr = Elements
            /\ \A k \in DOMAIN attr : get_edge_type(graph, k) = Ok(attr[k])
            /\ \A e \in Elements : "type" \in DOMAIN graph.attr[e]

\* An index has been built from a graph whose nodes were inserted in
\* descending order and whose edges are reported as (2, 1) and (2, 0).
C15_Witness ==
    /\ BuiltFromGraph
    /\ last.gr.nodes = <<2, 1, 0>>
    /\ last.gr.edges = {{1, 2}, {0, 2}}
    /\ get_edge_type(graph, <<1, 2>>) = Ok(1)
    /\ get_edge_type(graph, <<0, 1>>) = Ok(0)

\* Two elements share an endpoint.
ShareEndpoint(e, f) == {e[1], e[2]} \cap {f[1], f[2]} # {}

C17_SuppliedGraphDimension ==
    (pc = "returned" /\ last.op = "get_initial_dim" /\ origin.from = "gr") =>
        last.out = Ok(origin.n)

\* C18: constructing a wrapper from a graph G leaves G as it was, and so does
\* every later step; a second wrapper built from G at any time is the one a
\* first construction from G gives; a set call on one wrapper leaves the
\* other wrapper as it was.
C18_Isolation ==
    [][/\ pc' # "new" => source' = last'.gr
       /\ (~twin.built /\ twin'.built) =>
             Ok(twin'.graph) = init(last.dim, last.gr, twin'.graph.nodes)
       /\ (pc = "ready" /\ graph' # graph) => twin' = twin
       /\ (twin.built /\ twin'.graph # twin.graph) => graph' = graph]_vars

\* Two wrappers built from the path 0-1-2 kept by the caller: the first has
\* (0, 2) set to 1, the second has (0, 1) set to 0.
C18_Witness ==
    /\ pc = "ready"
    /\ twin.built
    /\ source.nodes = <<0, 1, 2>>
    /\ source.edges = {{0, 1}, {1, 2}}
    /\ get_edge_type(graph, <<0, 2>>) = Ok(1)
    /\ get_edge_type(twin.graph, <<0, 2>>) = Ok(0)
    /\ get_edge_type(graph, <<0, 1>>) = Ok(1)
    /\ get_edge_type(twin.graph, <<0, 1>>) = Ok(0)

\* The integer values of dim tried, and the default.
IntDims == {d \in Dims : d.kind = "int"} \cup {PyInt(10)}

\* C19: when gr is supplied, the outcome of __init__ and the index built are
\* the same for every integer dim, the default 10 included; with dim = None
\* the wrapper holds no index, gr supplied or not.
C19_SourcePrecedence ==
    last.op = "__init__" =>
        /\ (last.gr.kind # "NoneType" /\ last.dim.kind = "int") =>
              \A d \in IntDims :
                  /\ init(d, last.gr, graph.nodes).err = last.out.err
                  /\ pc = "returned" => init(d, last.gr, graph.nodes) = Ok(graph)
        /\ last.dim.kind = "NoneType" => (pc = "returned" /\ graph.none)

\* __init__ was given dim = None and a graph with an edge: it returned and
\* the wrapper holds no index.
C19_Witness ==
    /\ pc = "returned"
    /\ last.op = "__init__"
    /\ last.dim.kind = "NoneType"
    /\ last.gr.kind = "Graph"
    /\ last.gr.edges # {}
    /\ graph.none

====
